---- MODULE Spec2Model ----
(***************************************************************************)
(* Concentration card game service (api.py, models.py).                    *)
(*                                                                         *)
(* The datastore holds User, Game, Move and Score entities.  Every API     *)
(* method of ConcentrationAPI that writes the datastore is one action; a   *)
(* request that raises leaves the datastore as it was.  new_game and       *)
(* make_move answer with a GameForm and cancel_game with a StringMessage,  *)
(* which resp records (or the exception raised instead).  The read-only    *)
(* methods are operators over the datastore.  Python lists are 0-based,    *)
(* TLA+ sequences 1-based: card p of a board is board[p + 1].              *)
(***************************************************************************)
EXTENDS Integers, Sequences, FiniteSets, TLC

VARIABLES
    users,      \* names of the stored User entities
    games,      \* stored Game entities: a function from their keys
    nextKey,    \* the key the datastore gives the next Game
    moves,      \* stored Move entities
    scores,     \* stored Score entities, in the order they were put
    now,        \* the datastore's clock: it ticks on every writing request
    inflight,   \* make_move requests being served step by step, per handler
    resp        \* what the last new_game, cancel_game or make_move returned or raised

vars == <<users, games, nextKey, moves, scores, now, inflight, resp>>

(***************************************************************************)
(* Program constants.                                                      *)
(***************************************************************************)
MinCardTypes == 2
MaxCardTypes == 13
CardsPerType == 4

(***************************************************************************)
(* Bounds of the model and the inputs the requests draw from.              *)
(***************************************************************************)
MaxGames == 1
MaxMoves == 4

UserNames == {"ann"}
CardTypeInputs == {1, 2, 14}

\* An optional integer property: None is <<>>, the value v is <<v>>.
None == <<>>
Some(v) == <<v>>

(***************************************************************************)
(* Python helpers.                                                         *)
(***************************************************************************)
\* range(n) as a set, for "x in range(n)"
Range(n) == 0 .. (n - 1)

\* x in <list>
InList(x, list) == \E i \in 1 .. Len(list) : list[i] = x

\* number of occurrences of v in a list
RECURSIVE Count(_, _)
Count(v, list) ==
    IF list = <<>> THEN 0
    ELSE (IF Head(list) = v THEN 1 ELSE 0) + Count(v, Tail(list))

\* hex(n)[2].upper(): the leading hexadecimal digit of n >= 0
HexDigits == <<"0", "1", "2", "3", "4", "5", "6", "7",
               "8", "9", "A", "B", "C", "D", "E", "F">>
RECURSIVE HexLead(_)
HexLead(n) == IF n < 16 THEN HexDigits[n + 1] ELSE HexLead(n \div 16)

\* ''.join(list)
RECURSIVE Join(_)
Join(list) == IF list = <<>> THEN "" ELSE Head(list) \o Join(Tail(list))

\* str((card_1, card_2))
StrPair(c1, c2) == "(" \o ToString(c1) \o ", " \o ToString(c2) \o ")"

(***************************************************************************)
(* models.py                                                               *)
(***************************************************************************)
\* range(0, num_card_types) * 4
Deck(d) == [i \in 1 .. (CardsPerType * d) |-> (i - 1) % d]

\* random.shuffle(board): every arrangement of the deck is a possible outcome
Shuffles(d) ==
    { b \in [1 .. (CardsPerType * d) -> Range(d)] :
        \A v \in Range(d) : Count(v, b) = Count(v, Deck(d)) }

\* mutant of ValidCardTypes: 14 card types are accepted
ValidCardTypes_UpTo14(d) == d \in MinCardTypes .. (MaxCardTypes + 1)

\* Game.new_game: "num_card_types not in range(2, 14)" raises ValueError
ValidCardTypes(d) == d \in MinCardTypes .. MaxCardTypes

\* Game.new_game: the Game entity it puts
NewGameEntity(user, d, board, t) ==
    [ user                |-> user,
      num_card_types      |-> d,
      board               |-> board,
      matched_cards       |-> <<>>,
      last_guessed_card_1 |-> None,
      last_guessed_card_2 |-> None,
      attempts            |-> 0,
      game_over           |-> FALSE,
      last_move           |-> t ]

\* Game.to_form: "for card in eval(self.matched_cards): board_view[card] = ..."
RECURSIVE Uncover(_, _, _)
Uncover(view, board, matched) ==
    IF matched = <<>> THEN view
    ELSE Uncover([view EXCEPT ![Head(matched) + 1] = HexLead(board[Head(matched) + 1])],
                 board, Tail(matched))

\* mutant of Highlight: the guessed card is written without the '*' markers
Highlight_Bare(view, board, last) ==
    IF last = None THEN view
    ELSE [view EXCEPT ![last[1] + 1] = HexLead(board[last[1] + 1])]

\* Game.to_form: "if self.last_guessed_card_N is not None: board_view[...] = '*%s*'"
Highlight(view, board, last) ==
    IF last = None THEN view
    ELSE [view EXCEPT ![last[1] + 1] = "*" \o HexLead(board[last[1] + 1]) \o "*"]

\* mutant of BoardView: the matched cards are written after the highlights
BoardView_MatchedLast(game) ==
    LET hidden == [i \in 1 .. (CardsPerType * game.num_card_types) |-> "X"]
        first  == Highlight(hidden, game.board, game.last_guessed_card_1)
        second == Highlight(first, game.board, game.last_guessed_card_2)
    IN  Uncover(second, game.board, game.matched_cards)

\* mutant of BoardView: the board starts face up instead of hidden
BoardView_FaceUp(game) ==
    LET faceup == [i \in 1 .. (CardsPerType * game.num_card_types) |->
                      HexLead(game.board[i])]
        shown  == Uncover(faceup, game.board, game.matched_cards)
        first  == Highlight(shown, game.board, game.last_guessed_card_1)
    IN  Highlight(first, game.board, game.last_guessed_card_2)

\* Game.to_form: the list board_view before it is joined
BoardView(game) ==
    LET hidden == [i \in 1 .. (CardsPerType * game.num_card_types) |-> "X"]
        shown  == Uncover(hidden, game.board, game.matched_cards)
        first  == Highlight(shown, game.board, game.last_guessed_card_1)
    IN  Highlight(first, game.board, game.last_guessed_card_2)

\* Game.to_form
to_form(key, game, message) ==
    [ status      |-> "ok",
      urlsafe_key |-> key,
      user_name   |-> game.user,
      attempts    |-> game.attempts,
      board       |-> Join(BoardView(game)),
      game_over   |-> game.game_over,
      message     |-> message ]

\* a response that is no GameForm: a StringMessage, or an exception raised
Reply(status, message) ==
    [ status      |-> status,
      urlsafe_key |-> 0,
      user_name   |-> "",
      attempts    |-> 0,
      board       |-> "",
      game_over   |-> FALSE,
      message     |-> message ]

\* Game.add_move_to_history: the Move entity it puts (created_at is auto_now_add)
MoveEntity(key, card_1, card_2, msg, t) ==
    [ game |-> key, created_at |-> t, move |-> StrPair(card_1, card_2), result |-> msg ]

\* mutant of ScoreEntity: the Score reads attempts as it was before the move
ScoreEntity_BeforeCount(game, t) ==
    [ user           |-> game.user,
      date           |-> t,
      guesses        |-> game.attempts - 1,
      num_card_types |-> game.num_card_types ]

\* Game.end_game: the Score entity it puts
ScoreEntity(game, t) ==
    [ user           |-> game.user,
      date           |-> t,
      guesses        |-> game.attempts,
      num_card_types |-> game.num_card_types ]

\* Game.end_game(True) on the game object
end_game(game) == [game EXCEPT !.game_over = TRUE]

(***************************************************************************)
(* api.py                                                                  *)
(***************************************************************************)
\* utils.get_by_urlsafe(urlsafe_key, Game) found an entity
GameExists(key) == key \in DOMAIN games

\* make_move: "guessed_card_1 not in rng or guessed_card_2 not in rng"
InvalidCard(game, card_1, card_2) ==
    \/ card_1 \notin Range(game.num_card_types * CardsPerType)
    \/ card_2 \notin Range(game.num_card_types * CardsPerType)

\* mutant of AlreadyMatched: only guessed_card_1 is looked up
AlreadyMatched_FirstOnly(game, card_1, card_2) == InList(card_1, game.matched_cards)

\* make_move: "guessed_card_1 in eval(game.matched_cards) or guessed_card_2 in ..."
AlreadyMatched(game, card_1, card_2) ==
    \/ InList(card_1, game.matched_cards)
    \/ InList(card_2, game.matched_cards)

\* make_move: "eval(game.board)[guessed_card_1] == eval(game.board)[guessed_card_2]"
CardsMatch(game, card_1, card_2) == game.board[card_1 + 1] = game.board[card_2 + 1]

\* mutant of AddMatched: guessed_card_1 is appended twice
AddMatched_FirstTwice(game, card_1, card_2) ==
    [game EXCEPT !.matched_cards = Append(Append(@, card_1), card_1)]

\* make_move: matched_cards.append(guessed_card_1); matched_cards.append(guessed_card_2)
AddMatched(game, card_1, card_2) ==
    [game EXCEPT !.matched_cards = Append(Append(@, card_1), card_2)]

\* mutant of AllMatched: the game ends when every card is among the matched
AllMatched_Distinct(game) ==
    Cardinality({ game.matched_cards[i] : i \in 1 .. Len(game.matched_cards) })
        = game.num_card_types * CardsPerType

\* make_move: "len(eval(game.matched_cards)) == game.num_card_types * 4"
AllMatched(game) == Len(game.matched_cards) = game.num_card_types * CardsPerType

\* mutant of CountAttempt: the increment is missing
CountAttempt_Skipped(game) == game

\* make_move: "game.attempts += 1"
CountAttempt(game) == [game EXCEPT !.attempts = @ + 1]

\* make_move: game.last_guessed_card_1 = ...; game.last_guessed_card_2 = ...
SetLastGuessed(game, card_1, card_2) ==
    [game EXCEPT !.last_guessed_card_1 = Some(card_1),
                 !.last_guessed_card_2 = Some(card_2)]

\* make_move, from "game.attempts += 1" on: the game object, the message and
\* whether end_game was called (the Score it puts reads the game at that point)
LegalGuess(game, card_1, card_2) ==
    LET counted == CountAttempt(game)
        paired  == AddMatched(counted, card_1, card_2)
    IN  IF CardsMatch(counted, card_1, card_2)
        THEN IF AllMatched(paired)
             THEN [ game  |-> SetLastGuessed(end_game(paired), card_1, card_2),
                    ended |-> <<end_game(paired)>>,
                    msg   |-> "You got a match!" \o " You win!" ]
             ELSE [ game  |-> SetLastGuessed(paired, card_1, card_2),
                    ended |-> <<>>,
                    msg   |-> "You got a match!" ]
        ELSE [ game  |-> SetLastGuessed(counted, card_1, card_2),
               ended |-> <<>>,
               msg   |-> "Try again." ]

AlreadyMatchedMsg == "One of the cards you selected has already been matched."

\* game.put(): last_move is auto_now
Put(game, t) == [game EXCEPT !.last_move = t]

\* the game keys a request can name: those the datastore has handed out
GameKeyInputs == 1 .. (nextKey - 1)

\* the guesses a player submits: four disjoint pairs that cover a board of
\* eight cards, two cards of neighbouring pairs, the same card twice, a card
\* below the range and a card above it
GuessInputs ==
    { <<2 * i, 2 * i + 1>> : i \in 0 .. 3 } \cup
    { <<1, 2>>, <<1, 1>>, <<-1, 0>>, <<0, 8>> }

\* the outcome of random.shuffle the model draws (it is in Shuffles(d)): the
\* cards lie in pairs, so the four guessed pairs match and <<1, 2>> does not
PairedBoard(d) == [i \in 1 .. (CardsPerType * d) |-> ((i - 1) \div 2) % d]
ShuffleInputs(d) == { b \in {PairedBoard(d)} : b \in Shuffles(d) }

\* the request handlers that can serve a make_move at the same time
Handlers == {"h1", "h2"}

\* a handler that serves no request
Idle ==
    [ stage  |-> "idle",
      key    |-> 0,
      card_1 |-> 0,
      card_2 |-> 0,
      seen   |-> None,
      ended  |-> None,
      local  |-> None,
      writes |-> <<>>,
      msg    |-> "" ]

Init ==
    /\ users = {}
    /\ games = <<>>
    /\ nextKey = 1
    /\ moves = {}
    /\ scores = <<>>
    /\ now = 0
    /\ inflight = [h \in Handlers |-> Idle]
    /\ resp = Reply("none", "")

\* ConcentrationAPI.create_user
create_user(name) ==
    /\ IF name \in users
       THEN UNCHANGED users     \* raises ConflictException
       ELSE users' = users \cup {name}
    /\ UNCHANGED <<games, nextKey, moves, scores, now, inflight, resp>>

\* new_game: the message of its GameForm
NewGameMsg(game) ==
    "Board size is " \o ToString(game.num_card_types * 4) \o " cards " \o
    "(0-" \o ToString(game.num_card_types * 4 - 1) \o "). " \o
    "Good luck playing Concentration!"

\* ConcentrationAPI.new_game, random.shuffle drawing its outcome from boards
new_game_from(name, d, boards) ==
    /\ IF name \notin users
       THEN /\ resp' = Reply("NotFoundException", "A User with that name does not exist!")
            /\ UNCHANGED <<games, nextKey, now>>
       ELSE IF ~ValidCardTypes(d)
       THEN /\ resp' = Reply("BadRequestException",
                             "Number of card types must be between 2 and 13")
            /\ UNCHANGED <<games, nextKey, now>>
       ELSE /\ nextKey' = nextKey + 1
            /\ now' = now + 1
            /\ \E board \in boards :
                 LET game == NewGameEntity(name, d, board, now + 1)
                 IN  /\ games' = games @@ (nextKey :> game)
                     /\ resp' = to_form(nextKey, game, NewGameMsg(game))
    /\ UNCHANGED <<users, moves, scores, inflight>>

\* ConcentrationAPI.new_game
new_game(name, d) == new_game_from(name, d, ShuffleInputs(d))

\* mutant of CancelForbidden: a finished game can be cancelled
CancelForbidden_Never(game) == FALSE

\* cancel_game: "elif game.game_over is True" raises ForbiddenException
CancelForbidden(game) == game.game_over = TRUE

\* mutant of cancel_game: the Moves of the cancelled game are deleted with it
cancel_game_WithMoves(key) ==
    /\ IF ~GameExists(key)
       THEN /\ resp' = Reply("NotFoundException", "Game not found!")
            /\ UNCHANGED <<games, moves>>
       ELSE IF CancelForbidden(games[key])
       THEN /\ resp' = Reply("ForbiddenException", "Game already over")
            /\ UNCHANGED <<games, moves>>
       ELSE /\ resp' = Reply("ok", "Game canceled.")
            /\ games' = [k \in DOMAIN games \ {key} |-> games[k]]
            /\ moves' = { m \in moves : m.game # key }
    /\ UNCHANGED <<users, nextKey, scores, now, inflight>>

\* ConcentrationAPI.cancel_game
cancel_game(key) ==
    /\ IF ~GameExists(key)
       THEN /\ resp' = Reply("NotFoundException", "Game not found!")
            /\ UNCHANGED games
       ELSE IF CancelForbidden(games[key])
       THEN /\ resp' = Reply("ForbiddenException", "Game already over")
            /\ UNCHANGED games
       ELSE /\ resp' = Reply("ok", "Game canceled.")
            /\ games' = [k \in DOMAIN games \ {key} |-> games[k]]
    /\ UNCHANGED <<users, nextKey, moves, scores, now, inflight>>

\* ConcentrationAPI.make_move
make_move(key, card_1, card_2) ==
    /\ IF ~GameExists(key)
       THEN \* game is None: "game.game_over" raises
            /\ resp' = Reply("AttributeError", "")
            /\ UNCHANGED <<games, moves, scores, now>>
       ELSE IF games[key].game_over
       THEN /\ resp' = to_form(key, games[key], "Game already over!")
            /\ UNCHANGED <<games, moves, scores, now>>
       ELSE IF InvalidCard(games[key], card_1, card_2)
       THEN \* "'...%d.' % game.num_card_types * 4 - 1" is (str * 4) - 1: it raises
            /\ resp' = Reply("TypeError", "")
            /\ UNCHANGED <<games, moves, scores, now>>
       ELSE IF AlreadyMatched(games[key], card_1, card_2)
       THEN /\ now' = now + 1
            /\ games' = [games EXCEPT ![key] = Put(@, now + 1)]
            /\ moves' = moves \cup
                   {MoveEntity(key, card_1, card_2, AlreadyMatchedMsg, now + 1)}
            /\ resp' = to_form(key, games'[key], AlreadyMatchedMsg)
            /\ UNCHANGED scores
       ELSE LET guess == LegalGuess(games[key], card_1, card_2)
            IN  /\ now' = now + 1
                /\ games' = [games EXCEPT ![key] = Put(guess.game, now + 1)]
                /\ scores' = IF guess.ended = <<>> THEN scores
                             ELSE Append(scores, ScoreEntity(guess.ended[1], now + 1))
                /\ moves' = moves \cup
                       {MoveEntity(key, card_1, card_2, guess.msg, now + 1)}
                /\ resp' = to_form(key, games'[key], guess.msg)
    /\ UNCHANGED <<users, nextKey, inflight>>

\* The player the model follows starts a game only when none is in progress,
\* starts at most MaxGames games, cancels only games that are stored, and
\* guesses at a game in progress only while fewer than MaxMoves guesses are
\* logged.
NoGameInProgress == \A key \in DOMAIN games : games[key].game_over

Next ==
    \/ \E name \in UserNames : create_user(name)
    \/ \E name \in UserNames, d \in CardTypeInputs :
            /\ nextKey <= MaxGames
            /\ NoGameInProgress
            /\ new_game(name, d)
    \/ \E key \in DOMAIN games : cancel_game(key)
    \/ \E key \in GameKeyInputs, guess \in GuessInputs :
            /\ GameExists(key) /\ ~games[key].game_over => Cardinality(moves) < MaxMoves
            /\ make_move(key, guess[1], guess[2])

Spec == Init /\ [][Next]_vars

(***************************************************************************)
(* A second player: they guess from fewer pairs and also send cancel_game  *)
(* for games that are no longer stored.                                    *)
(***************************************************************************)
CancelGuessInputs == { <<2 * i, 2 * i + 1>> : i \in 0 .. 3 } \cup { <<1, 2>> }

NextCancel ==
    \/ \E name \in UserNames : create_user(name)
    \/ \E name \in UserNames, d \in CardTypeInputs :
            /\ nextKey <= MaxGames
            /\ NoGameInProgress
            /\ new_game(name, d)
    \/ \E key \in GameKeyInputs : cancel_game(key)
    \/ \E key \in DOMAIN games, guess \in CancelGuessInputs :
            /\ ~games[key].game_over => Cardinality(moves) < MaxMoves
            /\ make_move(key, guess[1], guess[2])

SpecCancel == Init /\ [][NextCancel]_vars

(***************************************************************************)
(* A league: one game after the other, on boards of several sizes and two  *)
(* arrangements.  A player guesses the pairs in order, after at most one   *)
(* miss at the start of a game, plays only the boards of PlayedCardTypes   *)
(* and cancels only a game not guessed at yet.                             *)
(***************************************************************************)
MaxLeagueGames == 3

LeagueCardTypes == {1, 2, 3, 13, 14}
PlayedCardTypes == {2, 3}

\* another outcome of random.shuffle: the second half of the board mirrored
MirrorBoard(d) ==
    [i \in 1 .. (CardsPerType * d) |->
        IF i <= 2 * d THEN ((i - 1) \div 2) % d
        ELSE (d - 1) - (((i - 1) \div 2) % d)]

LeagueShuffles(d) == { b \in {PairedBoard(d), MirrorBoard(d)} : b \in Shuffles(d) }

\* the next pair in order, or the cards 1 and 2 (a miss) as the first guess
LeagueGuesses(game) ==
    { <<Len(game.matched_cards), Len(game.matched_cards) + 1>> } \cup
    (IF game.attempts = 0 THEN { <<1, 2>> } ELSE {})

NextLeague ==
    \/ \E name \in UserNames : create_user(name)
    \/ \E name \in UserNames, d \in LeagueCardTypes :
            /\ nextKey <= MaxLeagueGames
            /\ NoGameInProgress
            /\ new_game_from(name, d, LeagueShuffles(d))
    \/ \E key \in DOMAIN games :
            /\ games[key].attempts = 0
            /\ cancel_game(key)
    \/ \E key \in DOMAIN games : \E guess \in LeagueGuesses(games[key]) :
            /\ ~games[key].game_over
            /\ games[key].num_card_types \in PlayedCardTypes
            /\ make_move(key, guess[1], guess[2])

SpecLeague == Init /\ [][NextLeague]_vars

(***************************************************************************)
(* make_move served step by step.  The handler runs without a transaction: *)
(* get_by_urlsafe reads the Game, the handler works on its own copy, and   *)
(* every put() that follows is a datastore call of its own, so the calls   *)
(* of two handlers can interleave.  serve_make_move is the read and the    *)
(* computation up to the first put; datastore_put is the next put of a     *)
(* handler, and with its last put the handler returns its GameForm.        *)
(***************************************************************************)
\* what the handler has in hand after the read: its copy of the game as it
\* will put it, the game as end_game puts it (if it is called), the puts to
\* come in program order, and the message
Served(h, key, card_1, card_2, seen, ended, local, writes, msg) ==
    [ stage  |-> IF writes = <<>> THEN "done" ELSE "busy",
      key    |-> key,
      card_1 |-> card_1,
      card_2 |-> card_2,
      seen   |-> seen,
      ended  |-> ended,
      local  |-> local,
      writes |-> writes,
      msg    |-> msg ]

\* make_move up to its first put
serve_make_move(h, key, card_1, card_2) ==
    /\ inflight[h].stage # "busy"
    /\ IF ~GameExists(key)
       THEN \* game is None: "game.game_over" raises
            /\ resp' = Reply("AttributeError", "")
            /\ inflight' = [inflight EXCEPT ![h] =
                   Served(h, key, card_1, card_2, None, None, None, <<>>, "")]
       ELSE IF games[key].game_over
       THEN /\ resp' = to_form(key, games[key], "Game already over!")
            /\ inflight' = [inflight EXCEPT ![h] =
                   Served(h, key, card_1, card_2, Some(games[key]), None,
                          Some(games[key]), <<>>, "Game already over!")]
       ELSE IF InvalidCard(games[key], card_1, card_2)
       THEN \* the message expression raises
            /\ resp' = Reply("TypeError", "")
            /\ inflight' = [inflight EXCEPT ![h] =
                   Served(h, key, card_1, card_2, Some(games[key]), None,
                          Some(games[key]), <<>>, "")]
       ELSE IF AlreadyMatched(games[key], card_1, card_2)
       THEN \* add_move_to_history puts the Move, then game.put()
            /\ resp' = resp
            /\ inflight' = [inflight EXCEPT ![h] =
                   Served(h, key, card_1, card_2, Some(games[key]), None,
                          Some(games[key]), <<"move", "game">>, AlreadyMatchedMsg)]
       ELSE LET guess == LegalGuess(games[key], card_1, card_2)
            IN  \* end_game puts the game and the Score before the Move is put
                /\ resp' = resp
                /\ inflight' = [inflight EXCEPT ![h] =
                       Served(h, key, card_1, card_2, Some(games[key]), guess.ended,
                              Some(guess.game),
                              IF guess.ended = <<>> THEN <<"move", "game">>
                              ELSE <<"end_game", "score", "move", "game">>,
                              guess.msg)]
    /\ UNCHANGED <<users, games, nextKey, moves, scores, now>>

\* entity.put(): the entity is written under its key, stored before or not
StoreGame(key, game) ==
    IF key \in DOMAIN games THEN [games EXCEPT ![key] = game]
    ELSE games @@ (key :> game)

\* the next put of a handler; after the last one it returns game.to_form(msg)
datastore_put(h) ==
    LET served == inflight[h]
        write  == Head(served.writes)
        last   == Len(served.writes) = 1
    IN  /\ served.stage = "busy"
        /\ now' = now + 1
        /\ inflight' = [inflight EXCEPT
               ![h].writes = Tail(@),
               ![h].stage = IF last THEN "done" ELSE "busy"]
        /\ games' = IF write = "end_game"
                    THEN StoreGame(served.key, Put(served.ended[1], now + 1))
                    ELSE IF write = "game"
                    THEN StoreGame(served.key, Put(served.local[1], now + 1))
                    ELSE games
        /\ scores' = IF write = "score"
                     THEN Append(scores, ScoreEntity(served.ended[1], now + 1))
                     ELSE scores
        /\ moves' = IF write = "move"
                    THEN moves \cup {MoveEntity(served.key, served.card_1,
                                                served.card_2, served.msg, now + 1)}
                    ELSE moves
        /\ resp' = IF last
                   THEN to_form(served.key, Put(served.local[1], now + 1), served.msg)
                   ELSE resp
        /\ UNCHANGED <<users, nextKey>>

\* Two handlers serve the guesses at the first game; at most MaxRaceMoves
\* guesses are logged.
MaxRaceMoves == 5

\* The players guess pairs they have not seen matched: on the board
\* 0 0 1 1 ... the first and the last pair of positions that the stored game
\* has not matched (one and the same pair when a single pair is left), and
\* the first pair again once the game is over.
OpenPairs(game) ==
    { i \in 0 .. (Len(game.board) \div 2) - 1 :
          ~InList(2 * i, game.matched_cards) }

Lowest(S) == CHOOSE i \in S : \A j \in S : i <= j

Highest(S) == CHOOSE i \in S : \A j \in S : j <= i

RaceGuessInputs(game) ==
    IF OpenPairs(game) = {} THEN { <<0, 1>> }
    ELSE { <<2 * i, 2 * i + 1>> :
               i \in {Lowest(OpenPairs(game)), Highest(OpenPairs(game))} }

RaceCardTypes == {2}

\* the guesses logged or still to be logged
GuessesTaken ==
    Cardinality(moves) +
    Cardinality({ h \in Handlers : \E i \in 1 .. Len(inflight[h].writes) :
                                      inflight[h].writes[i] = "move" })

NextRace ==
    \/ \E name \in UserNames : create_user(name)
    \/ \E name \in UserNames, d \in RaceCardTypes :
            /\ nextKey = 1
            /\ new_game(name, d)
    \/ \E h \in Handlers, key \in DOMAIN games :
            \E guess \in RaceGuessInputs(games[key]) :
                /\ GuessesTaken < MaxRaceMoves
                /\ serve_make_move(h, key, guess[1], guess[2])
    \/ \E h \in Handlers : datastore_put(h)

SpecRace == Init /\ [][NextRace]_vars

(***************************************************************************)
(* Read-only API methods.                                                  *)
(***************************************************************************)
\* Move.query(Move.game == game.key)
MovesOf(key) == { m \in moves : m.game = key }

\* .order(Move.created_at): the entities of a query result, oldest first
RECURSIVE OrderByCreatedAt(_)
OrderByCreatedAt(entities) ==
    IF entities = {} THEN <<>>
    ELSE LET first == CHOOSE m \in entities :
                          \A other \in entities : m.created_at <= other.created_at
         IN  <<first>> \o OrderByCreatedAt(entities \ {first})

\* Move.to_form
HistoryForm(m) == [move |-> m.move, result |-> m.result]

\* ConcentrationAPI.get_game_history, for a game that exists
get_game_history(key) ==
    LET ordered == OrderByCreatedAt(MovesOf(key))
    IN  [i \in 1 .. Len(ordered) |-> HistoryForm(ordered[i])]

\* Score.to_form
ScoreForm(score) ==
    [ user_name      |-> score.user,
      date           |-> ToString(score.date),
      guesses        |-> score.guesses,
      num_card_types |-> score.num_card_types ]

\* Score.query(Score.num_card_types == d): the Scores found, as positions in scores
ScoresOfType(d) == { i \in 1 .. Len(scores) : scores[i].num_card_types = d }

\* mutant of OrderByGuesses: the Scores come in the order they were put
RECURSIVE OrderByGuesses_AsPut(_)
OrderByGuesses_AsPut(found) ==
    IF found = {} THEN { <<>> }
    ELSE LET first == CHOOSE i \in found : \A j \in found : i <= j
         IN  { <<first>> \o rest : rest \in OrderByGuesses_AsPut(found \ {first}) }

\* .order(Score.guesses): the lists the query can produce, fewest guesses first;
\* Scores with equal guesses come in any order
RECURSIVE OrderByGuesses(_)
OrderByGuesses(found) ==
    IF found = {} THEN { <<>> }
    ELSE UNION { { <<first>> \o rest : rest \in OrderByGuesses(found \ {first}) } :
                 first \in { i \in found :
                               \A j \in found : scores[i].guesses <= scores[j].guesses } }

\* .fetch(limit=n)
Fetch(ordered, n) ==
    SubSeq(ordered, 1, IF n < Len(ordered) THEN n ELSE Len(ordered))

\* get_high_scores: "request.num_card_types not in range(2, 14)"
InvalidScoreTypes(d) == d \notin 2 .. 13

\* ConcentrationAPI.get_high_scores: the exception raised, or the lists of
\* ScoreForms it can return
get_high_scores(d, n) ==
    IF InvalidScoreTypes(d)
    THEN [ status  |-> "BadRequestException",
           message |-> "Number of card types must be between 2 and 13",
           items   |-> {} ]
    ELSE IF n < 1
    THEN [ status  |-> "BadRequestException",
           message |-> "Number of results must be greater than zero.",
           items   |-> {} ]
    ELSE [ status  |-> "ok",
           message |-> "",
           items   |-> { [i \in 1 .. Len(Fetch(ordered, n)) |->
                             ScoreForm(scores[Fetch(ordered, n)[i]])] :
                         ordered \in OrderByGuesses(ScoresOfType(d)) } ]

\* the user names a query can ask for: the stored ones and one never created
UserQueryInputs == UserNames \cup {"zed"}

\* ConcentrationAPI.get_user_games.  "Game.game_over is False" is evaluated by
\* Python before the query is built: it compares the property object with
\* False by identity and yields the bool False, and ndb.AND, given an
\* argument that is no query node, raises TypeError.  So for a stored user
\* the method raises before it counts or returns any game.
get_user_games(name) ==
    IF name \notin users
    THEN [ status  |-> "NotFoundException",
           message |-> "A User with that name does not exist!",
           items   |-> {} ]
    ELSE [ status |-> "TypeError", message |-> "", items |-> {} ]

\* ConcentrationAPI.get_user_performance.  The loop over User.query() builds
\* its Game query with "Game.game_over is True" in the same way, so its
\* first iteration raises TypeError; with no stored user the list is empty.
get_user_performance ==
    IF users = {}
    THEN [ status |-> "ok", items |-> <<>> ]
    ELSE [ status |-> "TypeError", items |-> <<>> ]

(***************************************************************************)
(* Vocabulary of the properties.                                           *)
(***************************************************************************)
StartsWith(s, prefix) ==
    Len(s) >= Len(prefix) /\ SubSeq(s, 1, Len(prefix)) = prefix

\* the cards of a game's board, and those among them that are matched
Cards(game) == Range(game.num_card_types * CardsPerType)
MatchedSet(game) == { game.matched_cards[i] : i \in 1 .. Len(game.matched_cards) }

InProgress(key) == GameExists(key) /\ ~games[key].game_over

\* a guess that passes make_move's validation on an in-progress game
Legal(key, card_1, card_2) ==
    /\ InProgress(key)
    /\ card_1 \in Cards(games[key]) /\ card_2 \in Cards(games[key])
    /\ card_1 \notin MatchedSet(games[key]) /\ card_2 \notin MatchedSet(games[key])

\* the make_move requests on the stored games; the step is such a request
Requests == (DOMAIN games) \X GuessInputs
Key(r) == r[1]
Card1(r) == r[2][1]
Card2(r) == r[2][2]
MakeMoveStep(r) == make_move(Key(r), Card1(r), Card2(r))

(***************************************************************************)
(* C1: game_over is true if and only if every board position is in the     *)
(* matched set.                                                            *)
(***************************************************************************)
C1_GameOverIffAllMatched ==
    \A key \in DOMAIN games :
        games[key].game_over <=> Cards(games[key]) \subseteq MatchedSet(games[key])

(***************************************************************************)
(* C2: a guess of the same card twice on an in-progress game (in range,    *)
(* not matched) is rejected: no match, attempts and matched unchanged.     *)
(***************************************************************************)
C2_SameCardRejected ==
    [][ \A r \in Requests :
          ( /\ Card1(r) = Card2(r)
            /\ Legal(Key(r), Card1(r), Card2(r))
            /\ MakeMoveStep(r) )
          => /\ games'[Key(r)].attempts = games[Key(r)].attempts
             /\ games'[Key(r)].matched_cards = games[Key(r)].matched_cards
             /\ ~StartsWith(resp'.message, "You got a match!") ]_vars

(***************************************************************************)
(* C3: the number of Score records equals the number of finished games;    *)
(* a Score is put exactly by the step in which a game's game_over turns    *)
(* from false to true, one Score for that one game, and its guesses,       *)
(* num_card_types and user are the game's attempts (the winning move       *)
(* counted), num_card_types and user.                                      *)
(***************************************************************************)
FinishedGames == { key \in DOMAIN games : games[key].game_over }

\* the games whose game_over this step turns from false to true
Wins ==
    { key \in DOMAIN games \cap DOMAIN games' :
        ~games[key].game_over /\ games'[key].game_over }

C3_OneScorePerWin ==
    /\ [](Len(scores) = Cardinality(FinishedGames))
    /\ [][ /\ Wins = {} => scores' = scores
           /\ \A key \in Wins :
                /\ Wins = {key}
                /\ Len(scores') = Len(scores) + 1
                /\ SubSeq(scores', 1, Len(scores)) = scores
                /\ scores'[Len(scores')].guesses = games'[key].attempts
                /\ scores'[Len(scores')].guesses = games[key].attempts + 1
                /\ scores'[Len(scores')].num_card_types = games'[key].num_card_types
                /\ scores'[Len(scores')].user = games'[key].user ]_vars

\* a game won by matching every card, and the Score put for it
C3_Witness ==
    \E key \in DOMAIN games :
        /\ games[key].game_over
        /\ MatchedSet(games[key]) = Cards(games[key])
        /\ Len(scores) = 1
        /\ scores[1].guesses = games[key].attempts
        /\ scores[1].guesses = 4

(***************************************************************************)
(* C4: attempts is 0 for a new game, grows by exactly 1 in every make_move *)
(* step whose guess passes validation (game in progress, both cards in     *)
(* range, neither matched), and changes in no other step.                  *)
(***************************************************************************)
C4_AttemptsCountLegalGuesses ==
    [][ /\ \A key \in DOMAIN games' \ DOMAIN games : games'[key].attempts = 0
        /\ \A key \in DOMAIN games' \cap DOMAIN games :
             \/ games'[key].attempts = games[key].attempts
             \/ /\ games'[key].attempts = games[key].attempts + 1
                /\ \E r \in Requests :
                     /\ Key(r) = key
                     /\ Legal(key, Card1(r), Card2(r))
                     /\ MakeMoveStep(r)
        /\ \A r \in Requests :
             (GameExists(Key(r)) /\ MakeMoveStep(r)) =>
                games'[Key(r)].attempts =
                    games[Key(r)].attempts +
                    (IF Legal(Key(r), Card1(r), Card2(r)) THEN 1 ELSE 0) ]_vars

\* two counted guesses and one rejected guess
C4_Witness ==
    \E key \in DOMAIN games :
        /\ games[key].attempts = 2
        /\ Cardinality(MovesOf(key)) = 3
        /\ resp.message = "One of the cards you selected has already been matched."

(***************************************************************************)
(* C5: a legal guess (p1, p2) on an in-progress game: if board[p1] =       *)
(* board[p2], p1 and p2 are added to matched and the message starts with   *)
(* 'You got a match!'; otherwise matched is unchanged and the message is   *)
(* 'Try again.'.  Either way last_guessed becomes (p1, p2) and the board   *)
(* is unchanged.                                                           *)
(***************************************************************************)
C5_LegalGuessOutcome ==
    [][ \A r \in Requests :
          (Legal(Key(r), Card1(r), Card2(r)) /\ MakeMoveStep(r)) =>
            LET before == games[Key(r)]
                after  == games'[Key(r)]
            IN  /\ IF before.board[Card1(r) + 1] = before.board[Card2(r) + 1]
                   THEN /\ MatchedSet(after) =
                               MatchedSet(before) \cup {Card1(r), Card2(r)}
                        /\ StartsWith(resp'.message, "You got a match!")
                   ELSE /\ after.matched_cards = before.matched_cards
                        /\ resp'.message = "Try again."
                /\ after.last_guessed_card_1 = Some(Card1(r))
                /\ after.last_guessed_card_2 = Some(Card2(r))
                /\ after.board = before.board ]_vars

\* a guess that did not match, made after one that did
C5_Witness ==
    \E key \in DOMAIN games :
        /\ MatchedSet(games[key]) = {4, 5}
        /\ games[key].last_guessed_card_1 = Some(1)
        /\ games[key].last_guessed_card_2 = Some(2)
        /\ resp.message = "Try again."

(***************************************************************************)
(* C6 as claimed: a make_move on an in-progress game in which either       *)
(* guessed card is already matched answers 'already been matched', leaves  *)
(* attempts, matched, last_guessed, game_over and the Scores unchanged and *)
(* appends exactly one Move with the submitted pair and that message.      *)
(***************************************************************************)
RejectedAsMatched(r) ==
    LET before == games[Key(r)]
        after  == games'[Key(r)]
        msg    == "One of the cards you selected has already been matched."
    IN  /\ resp'.status = "ok"
        /\ resp'.message = msg
        /\ after.attempts = before.attempts
        /\ after.matched_cards = before.matched_cards
        /\ after.last_guessed_card_1 = before.last_guessed_card_1
        /\ after.last_guessed_card_2 = before.last_guessed_card_2
        /\ after.game_over = before.game_over
        /\ scores' = scores
        /\ moves \subseteq moves'
        /\ Cardinality(moves') = Cardinality(moves) + 1
        /\ \A m \in moves' \ moves :
             /\ m.game = Key(r)
             /\ m.move = StrPair(Card1(r), Card2(r))
             /\ m.result = msg

C6_AnyMatchedCardRejected ==
    [][ \A r \in Requests :
          ( /\ InProgress(Key(r))
            /\ \/ Card1(r) \in MatchedSet(games[Key(r)])
               \/ Card2(r) \in MatchedSet(games[Key(r)])
            /\ MakeMoveStep(r) )
          => RejectedAsMatched(r) ]_vars

(***************************************************************************)
(* C6 as amended: the same, for a guess whose two cards are both in range. *)
(***************************************************************************)
C6_MatchedCardInRangeRejected ==
    [][ \A r \in Requests :
          ( /\ InProgress(Key(r))
            /\ Card1(r) \in Cards(games[Key(r)])
            /\ Card2(r) \in Cards(games[Key(r)])
            /\ \/ Card1(r) \in MatchedSet(games[Key(r)])
               \/ Card2(r) \in MatchedSet(games[Key(r)])
            /\ MakeMoveStep(r) )
          => RejectedAsMatched(r) ]_vars

\* the guess (1, 2) was rejected because card 2, its second card, is matched
C6_Witness ==
    \E key \in DOMAIN games :
        /\ MatchedSet(games[key]) = {2, 3}
        /\ resp.message = "One of the cards you selected has already been matched."
        /\ \E m \in MovesOf(key) :
             m.move = "(1, 2)" /\ m.result = resp.message /\ m.created_at = now

(***************************************************************************)
(* C7: a make_move on an in-progress game in which either guessed card is  *)
(* outside 0 .. 4 * num_card_types - 1 returns normally with an 'Invalid   *)
(* card' message, appends exactly one Move with the submitted pair and     *)
(* that message, and leaves matched, attempts and last_guessed unchanged.  *)
(***************************************************************************)
C7_InvalidCardRejected ==
    [][ \A r \in Requests :
          ( /\ InProgress(Key(r))
            /\ \/ Card1(r) \notin Cards(games[Key(r)])
               \/ Card2(r) \notin Cards(games[Key(r)])
            /\ MakeMoveStep(r) )
          => LET before == games[Key(r)]
                 after  == games'[Key(r)]
             IN  /\ resp'.status = "ok"
                 /\ StartsWith(resp'.message, "Invalid card")
                 /\ moves \subseteq moves'
                 /\ Cardinality(moves') = Cardinality(moves) + 1
                 /\ \A m \in moves' \ moves :
                      /\ m.game = Key(r)
                      /\ m.move = StrPair(Card1(r), Card2(r))
                      /\ m.result = resp'.message
                 /\ after.matched_cards = before.matched_cards
                 /\ after.attempts = before.attempts
                 /\ after.last_guessed_card_1 = before.last_guessed_card_1
                 /\ after.last_guessed_card_2 = before.last_guessed_card_2 ]_vars

(***************************************************************************)
(* C8: once game_over is true the game stays stored and unchanged in every *)
(* later step (so game_over stays true and cancel_game does not delete     *)
(* it), and a make_move on it answers 'Game already over!' and puts no     *)
(* Move and no Score.                                                      *)
(***************************************************************************)
C8_FinishedGameFrozen ==
    /\ [][ \A key \in FinishedGames :
             /\ key \in DOMAIN games'
             /\ games'[key] = games[key] ]_vars
    /\ [][ \A r \in Requests :
             (Key(r) \in FinishedGames /\ MakeMoveStep(r)) =>
                /\ resp'.message = "Game already over!"
                /\ resp'.game_over
                /\ moves' = moves
                /\ scores' = scores ]_vars
    /\ [][ \A key \in FinishedGames : cancel_game(key) => games' = games ]_vars

\* a guess was answered 'Game already over!'
C8_Witness ==
    \E key \in FinishedGames :
        /\ resp.message = "Game already over!"
        /\ resp.urlsafe_key = key
        /\ resp.attempts = games[key].attempts

(***************************************************************************)
(* C9: every guess submitted to make_move while the game is in progress,   *)
(* rejected ones included, appends exactly one entry (the pair, the        *)
(* result) to the end of what get_game_history returns for the game, and   *)
(* no other step changes the history of a stored game.                     *)
(***************************************************************************)
C9_HistoryLogsEveryGuess ==
    [][ /\ \A r \in Requests :
             (InProgress(Key(r)) /\ MakeMoveStep(r)) =>
                /\ resp'.status = "ok"
                /\ get_game_history(Key(r))' =
                       Append(get_game_history(Key(r)),
                              [ move   |-> StrPair(Card1(r), Card2(r)),
                                result |-> resp'.message ])
        /\ \A key \in DOMAIN games \cap DOMAIN games' :
             \/ get_game_history(key)' = get_game_history(key)
             \/ \E r \in Requests :
                  Key(r) = key /\ InProgress(key) /\ MakeMoveStep(r) ]_vars

(***************************************************************************)
(* C10: in the board to_form renders, a card that is matched and is one of *)
(* the last guessed cards is shown as its bare value, without '*'.         *)
(***************************************************************************)
LastGuessed(game) ==
    { c \in Cards(game) :
        game.last_guessed_card_1 = Some(c) \/ game.last_guessed_card_2 = Some(c) }

C10_MatchedShownBare ==
    \A key \in DOMAIN games :
        \A c \in MatchedSet(games[key]) \cap LastGuessed(games[key]) :
            BoardView(games[key])[c + 1] = HexLead(games[key].board[c + 1])

(***************************************************************************)
(* C10 as amended: a card that is one of the last guessed cards is shown   *)
(* as its value between '*' markers whether or not it is matched; a        *)
(* matched card that is not one of the last guessed cards is shown bare.   *)
(***************************************************************************)
C10_LastGuessedShownMarked ==
    \A key \in DOMAIN games :
        LET game == games[key]
            view == BoardView(game)
        IN  /\ \A c \in LastGuessed(game) :
                  view[c + 1] = "*" \o HexLead(game.board[c + 1]) \o "*"
            /\ \A c \in MatchedSet(game) \ LastGuessed(game) :
                  view[c + 1] = HexLead(game.board[c + 1])

\* right after the matching guess (2, 3), with the cards 0 and 1 matched before
C10_Witness ==
    \E key \in DOMAIN games :
        /\ MatchedSet(games[key]) = {0, 1, 2, 3}
        /\ LastGuessed(games[key]) = {2, 3}
        /\ resp.message = "You got a match!"
        /\ resp.board = "00*1**1*XXXX"

(***************************************************************************)
(* C11: the board string to_form returns has the same length, one          *)
(* character for every card of the board, in every state of a game.        *)
(***************************************************************************)
C11_BoardLengthFixed ==
    \A key \in DOMAIN games :
        /\ Len(to_form(key, games[key], "").board) =
               CardsPerType * games[key].num_card_types
        /\ \A c \in Cards(games[key]) : Len(BoardView(games[key])[c + 1]) = 1

(***************************************************************************)
(* C11 as amended: a card that is not one of the last guessed cards takes  *)
(* one character of the board string and a last guessed card takes three   *)
(* (its value between '*' markers), so the string is 4 * num_card_types    *)
(* characters long for a new game and two characters longer for each       *)
(* distinct last guessed card afterwards.                                  *)
(***************************************************************************)
C11_BoardLengthByHighlights ==
    \A key \in DOMAIN games :
        LET game == games[key]
        IN  /\ \A c \in Cards(game) :
                  Len(BoardView(game)[c + 1]) =
                      IF c \in LastGuessed(game) THEN 3 ELSE 1
            /\ Len(to_form(key, game, "").board) =
                   CardsPerType * game.num_card_types +
                   2 * Cardinality(LastGuessed(game))
            /\ game.attempts = 0 =>
                   Len(to_form(key, game, "").board) =
                       CardsPerType * game.num_card_types

\* the board of 8 cards is returned as 12 characters after the guess (1, 2)
C11_Witness ==
    \E key \in DOMAIN games :
        /\ LastGuessed(games[key]) = {1, 2}
        /\ resp.urlsafe_key = key
        /\ resp.board = "X*0**1*XXXXX"
        /\ Len(resp.board) = 12

(***************************************************************************)
(* C12: to_form renders every card that is neither matched nor one of the  *)
(* two cards of the most recent legal guess as 'X'.  Hence the rendered    *)
(* board of a game is that of the game with any other board that has the   *)
(* same values at the matched and last guessed cards, and after a legal    *)
(* guess only the matched cards and the two guessed cards are shown: the   *)
(* cards an earlier miss revealed are hidden again.                        *)
(***************************************************************************)
Revealed(game) == MatchedSet(game) \cup LastGuessed(game)

SameAt(board, other, cards) == \A c \in cards : board[c + 1] = other[c + 1]

C12_UnrevealedHidden ==
    /\ [](\A key \in DOMAIN games :
            LET game == games[key]
            IN  /\ \A c \in Cards(game) \ Revealed(game) :
                      BoardView(game)[c + 1] = "X"
                /\ \A other \in LeagueShuffles(game.num_card_types) :
                      SameAt(game.board, other, Revealed(game)) =>
                          to_form(key, [game EXCEPT !.board = other], "").board =
                              to_form(key, game, "").board)
    /\ [][ \A key \in DOMAIN games : \A guess \in LeagueGuesses(games[key]) :
             ( /\ Legal(key, guess[1], guess[2])
               /\ make_move(key, guess[1], guess[2]) )
             => /\ \A c \in Cards(games'[key]) \
                             (MatchedSet(games'[key]) \cup {guess[1], guess[2]}) :
                       BoardView(games'[key])[c + 1] = "X"
                /\ resp'.board = Join(BoardView(games'[key])) ]_vars

\* on the mirrored board, the miss (1, 2) and then the match (0, 1): card 2 is
\* hidden again, and the cards that differ from the paired board are hidden
C12_Witness ==
    \E key \in DOMAIN games :
        /\ games[key].board = MirrorBoard(2)
        /\ games[key].board # PairedBoard(2)
        /\ SameAt(games[key].board, PairedBoard(2), Revealed(games[key]))
        /\ \E m \in MovesOf(key) : m.move = "(1, 2)" /\ m.result = "Try again."
        /\ MatchedSet(games[key]) = {0, 1}
        /\ resp.board = "*0**0*XXXXXX"

(***************************************************************************)
(* C13: new_game for a stored user with num_card_types d in 2 .. 13 stores *)
(* one new game whose board has 4 * d cards, each value 0 .. d - 1 exactly *)
(* 4 times, with attempts 0, nothing matched, game_over false and no last  *)
(* guessed cards; with d outside 2 .. 13 it raises BadRequestException and *)
(* stores no game.                                                         *)
(***************************************************************************)
C13_NewGameValidated ==
    [][ \A name \in UserNames, d \in LeagueCardTypes :
          (name \in users /\ new_game_from(name, d, LeagueShuffles(d))) =>
            IF d \in 2 .. 13
            THEN /\ resp'.status = "ok"
                 /\ \A key \in DOMAIN games : games'[key] = games[key]
                 /\ \E key \in DOMAIN games' \ DOMAIN games :
                      /\ DOMAIN games' = DOMAIN games \cup {key}
                      /\ resp'.urlsafe_key = key
                      /\ games'[key].user = name
                      /\ games'[key].num_card_types = d
                      /\ Len(games'[key].board) = 4 * d
                      /\ \A v \in 0 .. (d - 1) : Count(v, games'[key].board) = 4
                      /\ games'[key].attempts = 0
                      /\ games'[key].matched_cards = <<>>
                      /\ games'[key].game_over = FALSE
                      /\ games'[key].last_guessed_card_1 = None
                      /\ games'[key].last_guessed_card_2 = None
            ELSE /\ resp'.status = "BadRequestException"
                 /\ games' = games ]_vars

\* a game of 13 card types was stored: 52 hidden cards
C13_Witness ==
    \E key \in DOMAIN games :
        /\ games[key].num_card_types = 13
        /\ Len(games[key].board) = 52
        /\ resp.urlsafe_key = key
        /\ resp.status = "ok"
        /\ Len(resp.board) = 52
        /\ resp.attempts = 0

(***************************************************************************)
(* C14: get_high_scores(d, n) with d in 2 .. 13 and n >= 1 returns forms   *)
(* of distinct Scores of num_card_types d only, in non-decreasing order of *)
(* guesses, exactly min(n, number of such Scores) of them, and no Score of *)
(* that num_card_types left out has fewer guesses than a returned one;     *)
(* with d outside 2 .. 13 or n < 1 it raises BadRequestException.          *)
(***************************************************************************)
ScoreTypeInputs == {1, 2, 3, 13, 14}
ResultCountInputs == {-1, 0, 1, 2, 3}

C14_HighScoresRanked ==
    \A d \in ScoreTypeInputs, n \in ResultCountInputs :
        LET reply   == get_high_scores(d, n)
            ofType  == { ScoreForm(scores[i]) :
                           i \in { j \in 1 .. Len(scores) :
                                     scores[j].num_card_types = d } }
        IN  IF d >= 2 /\ d <= 13 /\ n >= 1
            THEN /\ reply.status = "ok"
                 /\ reply.items # {}
                 /\ \A items \in reply.items :
                      LET returned == { items[i] : i \in 1 .. Len(items) }
                      IN  /\ returned \subseteq ofType
                          /\ Cardinality(returned) = Len(items)
                          /\ \A i \in 1 .. Len(items) : items[i].num_card_types = d
                          /\ \A i \in 1 .. (Len(items) - 1) :
                               items[i].guesses <= items[i + 1].guesses
                          /\ Len(items) = IF n < Cardinality(ofType)
                                          THEN n ELSE Cardinality(ofType)
                          /\ \A left \in ofType \ returned : \A kept \in returned :
                               ~(left.guesses < kept.guesses)
            ELSE reply.status = "BadRequestException"

\* a game of 2 card types won in 5 guesses, then one won in 4, and a game of 3
\* card types won: the best Score of 2 card types is the second one put
C14_Witness ==
    /\ Len(scores) = 3
    /\ scores[1].num_card_types = 2 /\ scores[1].guesses = 5
    /\ scores[2].num_card_types = 2 /\ scores[2].guesses = 4
    /\ scores[3].num_card_types = 3
    /\ get_high_scores(2, 1).items = { <<ScoreForm(scores[2])>> }
    /\ get_high_scores(2, 3).items = { <<ScoreForm(scores[2]), ScoreForm(scores[1])>> }
    /\ get_high_scores(14, 1).status = "BadRequestException"
    /\ get_high_scores(2, 0).status = "BadRequestException"

(***************************************************************************)
(* C15: get_user_performance returns its (user_name, performance) entries  *)
(* sorted by performance: of two adjacent entries the first has the        *)
(* performance that is not the greater.  A performance is a fraction       *)
(* <<numerator, denominator>>.                                             *)
(***************************************************************************)
NotGreater(p, q) == p[1] * q[2] <= q[1] * p[2]

C15_PerformanceSorted ==
    LET reply == get_user_performance
    IN  /\ reply.status = "ok"
        /\ \A i \in 1 .. (Len(reply.items) - 1) :
             NotGreater(reply.items[i].performance, reply.items[i + 1].performance)

(***************************************************************************)
(* C16: get_user_performance lists exactly the users with at least one     *)
(* game whose game_over is true, each once, and a user's performance is    *)
(* the mean of C(4 * num_card_types, 2) / attempts over that user's games  *)
(* whose game_over is true.                                                *)
(***************************************************************************)
FinishedGamesOf(name) == { key \in FinishedGames : games[key].user = name }

\* the sum of C(4d, 2) / attempts over a set of games, as a fraction
RECURSIVE SumOfRatios(_)
SumOfRatios(keys) ==
    IF keys = {} THEN <<0, 1>>
    ELSE LET key   == CHOOSE k \in keys : TRUE
             cards == CardsPerType * games[key].num_card_types
             rest  == SumOfRatios(keys \ {key})
         IN  << ((cards * (cards - 1)) \div 2) * rest[2] + rest[1] * games[key].attempts,
                games[key].attempts * rest[2] >>

MeanPerformance(name) ==
    << SumOfRatios(FinishedGamesOf(name))[1],
       SumOfRatios(FinishedGamesOf(name))[2] * Cardinality(FinishedGamesOf(name)) >>

C16_PerformanceOfFinishedGames ==
    LET reply == get_user_performance
    IN  /\ reply.status = "ok"
        /\ { reply.items[i].user_name : i \in 1 .. Len(reply.items) } =
               { name \in users : FinishedGamesOf(name) # {} }
        /\ \A i, j \in 1 .. Len(reply.items) :
               reply.items[i].user_name = reply.items[j].user_name => i = j
        /\ \A i \in 1 .. Len(reply.items) :
               LET mean == MeanPerformance(reply.items[i].user_name)
               IN  reply.items[i].performance[1] * mean[2] =
                       mean[1] * reply.items[i].performance[2]

(***************************************************************************)
(* C17: get_user_games for a stored user with at least one game whose      *)
(* game_over is false returns exactly the forms of those games of that     *)
(* user; for a user that is not stored, or has no such game, it raises     *)
(* NotFoundException.                                                      *)
(***************************************************************************)
UnfinishedGamesOf(name) ==
    { key \in DOMAIN games : games[key].user = name /\ ~games[key].game_over }

C17_UserGamesUnfinished ==
    \A name \in UserQueryInputs :
        LET reply == get_user_games(name)
        IN  IF name \in users /\ UnfinishedGamesOf(name) # {}
            THEN /\ reply.status = "ok"
                 /\ reply.items =
                        { to_form(key, games[key], "") : key \in UnfinishedGamesOf(name) }
            ELSE reply.status = "NotFoundException"

(***************************************************************************)
(* C18: cancel_game on a stored game whose game_over is false deletes that *)
(* Game and nothing else; on a finished game it raises ForbiddenException  *)
(* and on a game that is not stored NotFoundException, leaving every Game  *)
(* as it was.  It never removes or changes a Move or a Score, and no other *)
(* request removes a Game.                                                 *)
(***************************************************************************)
C18_CancelOnlyInProgress ==
    /\ [][ \A key \in GameKeyInputs :
             cancel_game(key) =>
                /\ moves' = moves
                /\ scores' = scores
                /\ IF key \in DOMAIN games /\ ~games[key].game_over
                   THEN /\ resp'.status = "ok"
                        /\ DOMAIN games' = DOMAIN games \ {key}
                        /\ \A other \in DOMAIN games' : games'[other] = games[other]
                   ELSE /\ games' = games
                        /\ resp'.status = IF key \in DOMAIN games
                                          THEN "ForbiddenException"
                                          ELSE "NotFoundException" ]_vars
    /\ [][ \A key \in DOMAIN games \ DOMAIN games' :
             ~games[key].game_over /\ cancel_game(key) ]_vars

\* a game was cancelled after two guesses: its Moves are still stored
C18_Witness ==
    /\ resp.status = "ok"
    /\ resp.message = "Game canceled."
    /\ \E m \in moves : m.game \notin DOMAIN games
    /\ Cardinality(moves) = 2

(***************************************************************************)
(* C19: make_move on a game that is not stored (never created, or          *)
(* cancelled) raises NotFoundException and puts no Move and no Score.      *)
(***************************************************************************)
C19_MissingGameNotFound ==
    [][ \A key \in GameKeyInputs, guess \in GuessInputs :
          (~GameExists(key) /\ make_move(key, guess[1], guess[2])) =>
             /\ resp'.status = "NotFoundException"
             /\ moves' = moves
             /\ scores' = scores ]_vars

(***************************************************************************)
(* C20: the stored matched cards are cards of the board, none is stored    *)
(* twice, they can be split into pairs of two different cards of equal     *)
(* value (so of every value an even number of cards is matched, and the    *)
(* number of matched cards is even), and no step removes a matched card.   *)
(***************************************************************************)
C20_MatchedDisjointPairs ==
    /\ [](\A key \in DOMAIN games :
            LET game == games[key]
            IN  /\ MatchedSet(game) \subseteq Cards(game)
                /\ Cardinality(MatchedSet(game)) = Len(game.matched_cards)
                /\ \A v \in 0 .. (game.num_card_types - 1) :
                      Cardinality({ c \in MatchedSet(game) \cap Cards(game) :
                                      game.board[c + 1] = v }) % 2 = 0
                /\ Cardinality(MatchedSet(game)) % 2 = 0)
    /\ [][ \A key \in DOMAIN games \cap DOMAIN games' :
             MatchedSet(games[key]) \subseteq MatchedSet(games'[key]) ]_vars

(***************************************************************************)
(* Two make_move requests on one game, served at the same time (SpecRace)  *)
(***************************************************************************)
\* the Score records put for a game: a Score names no game, so they are the
\* records with the game's user and deck (SpecRace has a single game)
ScoresOfGame(key) ==
    { i \in DOMAIN scores :
          /\ scores[i].user = games[key].user
          /\ scores[i].num_card_types = games[key].num_card_types }

\* C21: when two make_move requests on the same game interleave, at most one
\* Score record is created for that game - the win transition is never
\* performed twice for the same game.
C21_OneScorePerGame ==
    \A key \in DOMAIN games : Cardinality(ScoresOfGame(key)) <= 1

\* the game as make_move leaves it when the request is served alone: a
\* finished game, an invalid card and an already matched card change neither
\* matched_cards nor attempts
ServedAlone(game, card_1, card_2) ==
    IF game.game_over \/ InvalidCard(game, card_1, card_2)
          \/ AlreadyMatched(game, card_1, card_2)
    THEN game
    ELSE LegalGuess(game, card_1, card_2).game

\* the game after the request of handler h, then the request of handler g
OneAfterTheOther(game, h, g) ==
    ServedAlone(ServedAlone(game, inflight[h].card_1, inflight[h].card_2),
                inflight[g].card_1, inflight[g].card_2)

\* both handlers have answered a request on the game, and both had read the
\* same stored game: the two requests overlapped, or the first changed nothing
ServedTogether(key) ==
    /\ \A h \in Handlers : inflight[h].stage = "done" /\ inflight[h].key = key
    /\ inflight["h1"].seen # None
    /\ inflight["h1"].seen = inflight["h2"].seen

\* C22: when two make_move requests on the same game interleave, the stored
\* matched_cards and attempts are those of the two requests run one after
\* the other in some order - no increment of attempts and no matched pair
\* is lost.
C22_SerialOutcome ==
    \A key \in DOMAIN games :
        ServedTogether(key) =>
            \E h \in Handlers, g \in Handlers :
                /\ h # g
                /\ games[key].matched_cards =
                       OneAfterTheOther(inflight[h].seen[1], h, g).matched_cards
                /\ games[key].attempts =
                       OneAfterTheOther(inflight[h].seen[1], h, g).attempts

(***************************************************************************)
(* Progress of a game                                                      *)
(***************************************************************************)
\* a guess that make_move answers with a match on the game
AcceptedAsMatch(game, card_1, card_2) ==
    /\ ~game.game_over
    /\ ~InvalidCard(game, card_1, card_2)
    /\ ~AlreadyMatched(game, card_1, card_2)
    /\ CardsMatch(game, card_1, card_2)

\* the matching guesses a game still takes before make_move ends it
MatchesLeft(game) ==
    (game.num_card_types * CardsPerType - Len(game.matched_cards)) \div 2

\* the guesses on a game that were answered with a match
MatchesMade(key) ==
    Cardinality({ m \in MovesOf(key) : StartsWith(m.result, "You got a match!") })

\* C23: no in-progress game is stuck - while game_over is false some guess is
\* accepted as a match, every accepted match brings the game one step closer
\* to its end, and the game is over exactly when 2 * num_card_types matches
\* were made, so a player who keeps matching ends the game within that many
\* guesses.
C23_NeverStuck ==
    /\ [](\A key \in DOMAIN games :
            /\ MatchesMade(key) + MatchesLeft(games[key])
                   = 2 * games[key].num_card_types
            /\ games[key].game_over <=> MatchesLeft(games[key]) = 0
            /\ ~games[key].game_over =>
                   \E card_1 \in Cards(games[key]), card_2 \in Cards(games[key]) :
                       AcceptedAsMatch(games[key], card_1, card_2))
    /\ [][ \A r \in Requests :
             MakeMoveStep(r) /\ AcceptedAsMatch(games[Key(r)], Card1(r), Card2(r)) =>
                 /\ MatchesLeft(games'[Key(r)]) = MatchesLeft(games[Key(r)]) - 1
                 /\ MatchesMade(Key(r))' = MatchesMade(Key(r)) + 1
                 /\ StartsWith(resp'.message, "You got a match!") ]_vars

\* a game that ended after 2 * num_card_types guesses, every one of them a match
C23_Witness ==
    \E key \in DOMAIN games :
        /\ games[key].game_over
        /\ MatchesMade(key) = 2 * games[key].num_card_types
        /\ Cardinality(MovesOf(key)) = MatchesMade(key)
        /\ resp.message = "You got a match! You win!"

====
